---- MODULE Spec2Model ----
(***************************************************************************)
(* Model of the clinical worklist of fhir-core-demo (src/src/App.jsx):     *)
(* the triage classifier, the completeness evaluator, the extraction of   *)
(* vitals from Observations in fetchVitals and the worklist snapshot       *)
(* effect that drives mapLimit with a shared cursor.                       *)
(*                                                                         *)
(* JavaScript runs one macrotask at a time and drains the microtask queue  *)
(* before the next one, so every action below is one macrotask: a search   *)
(* response, or the settlement of the Promise.all a mapper awaits, with     *)
(* everything the promise continuations do before control returns to the   *)
(* event loop.  A mapper that awaits has between one and four fetch calls  *)
(* in flight; the program reacts only when their Promise.all settles.      *)
(*                                                                         *)
(* The environment is bounded: searches return one of PatientLists, at     *)
(* most MaxPasses passes are started, and in Spec the server rejects only  *)
(* fetches of the patients in FlakySubjects.                               *)
(*                                                                         *)
(* Temperatures are in tenths of a degree Celsius (37.8 is 378).           *)
(***************************************************************************)
EXTENDS Integers, Sequences, FiniteSets, TLC

(* ------------------------------------------------------------------ *)
(* JavaScript values of a vital: a number, NaN (typeof "number") or    *)
(* null.                                                                *)
(* ------------------------------------------------------------------ *)
null == -1000001
NaN == -1000002

TypeofNumber(x) == x # null
IsFinite(x) == x # null /\ x # NaN
\* a >= b and a <= b of JavaScript numbers: every comparison with NaN is false
Ge(a, b) == a # NaN /\ b # NaN /\ a >= b
Le(a, b) == a # NaN /\ b # NaN /\ a <= b

DefaultRules ==
  [bpRedSys |-> 180, bpRedDia |-> 120, bpAmberSys |-> 140, bpAmberDia |-> 90,
   hrRed |-> 130, hrAmber |-> 100, spo2Red |-> 90, spo2Amber |-> 94,
   tempRed |-> 390, tempAmber |-> 378, completenessHours |-> 24]

(* ------------------------------------------------------------------ *)
(* computeTriage                                                        *)
(* ------------------------------------------------------------------ *)
Reason(text, n) == [text |-> text, n |-> n]
NoTriggerReason ==
  Reason("No RED/AMBER triggers found in latest vitals window (demo rule).", 0)

TriageOrder(l) == CASE l = "GREEN" -> 0 [] l = "AMBER" -> 1 [] l = "RED" -> 2

\* the level is assigned without comparing it with the current one
bumpAssign(level, to) == to

bump(level, to) == IF TriageOrder(to) > TriageOrder(level) THEN to ELSE level

\* the amber cutoff is tested before the red one
HighRuleAmberFirst(acc, v, red, amber, text) ==
  IF ~TypeofNumber(v) THEN acc
  ELSE IF Ge(v, amber)
       THEN [level |-> bump(acc.level, "AMBER"),
             reasons |-> Append(acc.reasons, Reason(text, amber))]
       ELSE IF Ge(v, red)
            THEN [level |-> bump(acc.level, "RED"),
                  reasons |-> Append(acc.reasons, Reason(text, red))]
            ELSE acc

\* one "if (typeof latest.k === number) { if red .. else if amber .. }" block,
\* applied to the running {level, reasons}
HighRule(acc, v, red, amber, text) ==
  IF ~TypeofNumber(v) THEN acc
  ELSE IF Ge(v, red)
       THEN [level |-> bump(acc.level, "RED"),
             reasons |-> Append(acc.reasons, Reason(text, red))]
       ELSE IF Ge(v, amber)
            THEN [level |-> bump(acc.level, "AMBER"),
                  reasons |-> Append(acc.reasons, Reason(text, amber))]
            ELSE acc

\* oxygen saturation compared like the other vitals
LowRuleNotInverted(acc, v, red, amber, text) == HighRule(acc, v, red, amber, text)

LowRule(acc, v, red, amber, text) ==
  IF ~TypeofNumber(v) THEN acc
  ELSE IF Le(v, red)
       THEN [level |-> bump(acc.level, "RED"),
             reasons |-> Append(acc.reasons, Reason(text, red))]
       ELSE IF Le(v, amber)
            THEN [level |-> bump(acc.level, "AMBER"),
                  reasons |-> Append(acc.reasons, Reason(text, amber))]
            ELSE acc

\* the running {level, reasons} of one evaluation: at the start and after the
\* block of each vital, in the order of the code
TriageSteps(latest, r) ==
  LET a0 == [level |-> "GREEN", reasons |-> <<>>]
      a1 == HighRule(a0, latest.bpSys, r.bpRedSys, r.bpAmberSys,
                     "Systolic blood pressure >= _ mmHg.")
      a2 == HighRule(a1, latest.bpDia, r.bpRedDia, r.bpAmberDia,
                     "Diastolic blood pressure >= _ mmHg.")
      a3 == HighRule(a2, latest.hr, r.hrRed, r.hrAmber,
                     "Heart rate >= _ bpm (beats per minute).")
      a4 == HighRule(a3, latest.temp, r.tempRed, r.tempAmber,
                     "Temperature >= _ C.")
      a5 == LowRule(a4, latest.spo2, r.spo2Red, r.spo2Amber,
                    "Oxygen saturation <= _%.")
  IN  <<a0, a1, a2, a3, a4, a5>>

computeTriage(latest, r) ==
  LET a5 == TriageSteps(latest, r)[6]
  IN  IF Len(a5.reasons) = 0
      THEN [level |-> a5.level, reasons |-> <<NoTriggerReason>>]
      ELSE a5

(* ------------------------------------------------------------------ *)
(* computeCompleteness                                                  *)
(* ------------------------------------------------------------------ *)
DefaultWanted == <<"bpSys", "hr", "temp", "spo2">>

\* the missing kinds are collected in front of the list
RECURSIVE computeCompletenessReversed(_, _)
computeCompletenessReversed(latest, wanted) ==
  IF wanted = <<>> THEN <<>>
  ELSE LET k == Head(wanted)
           rest == computeCompletenessReversed(latest, Tail(wanted))
       IN  IF IsFinite(latest[k]) THEN rest ELSE rest \o <<k>>

RECURSIVE computeCompleteness(_, _)
computeCompleteness(latest, wanted) ==
  IF wanted = <<>> THEN <<>>
  ELSE LET k == Head(wanted)
           rest == computeCompleteness(latest, Tail(wanted))
       IN  IF IsFinite(latest[k]) THEN rest ELSE <<k>> \o rest

(* ------------------------------------------------------------------ *)
(* Vital parsing (FHIR Observation).  An Observation is a record of the *)
(* fields the code reads: the codes of code.coding, the display text,   *)
(* the four date fields (hours, null when absent), valueQuantity.value  *)
(* and unit, and the component array.                                   *)
(* ------------------------------------------------------------------ *)
LOINC ==
  [HR |-> "8867-4", TEMP |-> "8310-5", SPO2 |-> "59408-5",
   BP_PANEL |-> "55284-4", BP_SYS |-> "8480-6", BP_DIA |-> "8462-4"]

\* valueQuantity.value: absent, a JSON number, or a JSON string (its characters)
NoValue == [type |-> "undefined", num |-> null, text |-> <<>>]
NumValue(n) == [type |-> "number", num |-> n, text |-> <<>>]
StrValue(chars) == [type |-> "string", num |-> null, text |-> chars]

Digits == <<"0", "1", "2", "3", "4", "5", "6", "7", "8", "9">>
IsDigit(c) == \E d \in 1..Len(Digits) : Digits[d] = c
DigitVal(c) == (CHOOSE d \in 1..Len(Digits) : Digits[d] = c) - 1

\* String.prototype.trim
RECURSIVE TrimLeft(_)
TrimLeft(t) == IF t # <<>> /\ Head(t) = " " THEN TrimLeft(Tail(t)) ELSE t
RECURSIVE TrimRight(_)
TrimRight(t) ==
  IF t # <<>> /\ t[Len(t)] = " " THEN TrimRight(SubSeq(t, 1, Len(t) - 1)) ELSE t
Trim(t) == TrimRight(TrimLeft(t))

RECURSIVE DecimalValue(_, _)
DecimalValue(t, acc) ==
  IF t = <<>> THEN acc ELSE DecimalValue(Tail(t), 10 * acc + DigitVal(Head(t)))

\* Number(s) of a string of digits, blanks and other characters: the blanks
\* around it are dropped, the empty string gives 0, digits give their decimal
\* value, anything else gives NaN
Number(t) ==
  LET s == Trim(t)
  IN  IF \A i \in 1..Len(s) : IsDigit(s[i]) THEN DecimalValue(s, 0) ELSE NaN

codeHas(obs, loinc) == loinc \in obs.coding

obsEffectiveDate(obs) ==
  IF obs.effectiveDateTime # null THEN obs.effectiveDateTime
  ELSE IF obs.effectiveInstant # null THEN obs.effectiveInstant
  ELSE IF obs.issued # null THEN obs.issued
  ELSE IF obs.periodStart # null THEN obs.periodStart
  ELSE null

\* the date of an Observation in the single-patient view
pickObsDate(o) ==
  IF o.effectiveDateTime # null THEN o.effectiveDateTime
  ELSE IF o.periodStart # null THEN o.periodStart
  ELSE IF o.issued # null THEN o.issued
  ELSE null

numericValueFromObs(obs) ==
  IF obs.value.type = "number" THEN obs.value.num
  ELSE IF obs.value.type = "string" /\ Trim(obs.value.text) # <<>>
       THEN Number(obs.value.text)
       ELSE null

\* the loop over obs.component: "x = c.valueQuantity.value ?? x" keeps the
\* raw value, of any type, of the last component that has one
RECURSIVE ComponentLoop(_, _)
ComponentLoop(comps, acc) ==
  IF comps = <<>> THEN acc
  ELSE LET c == Head(comps)
           isSys == LOINC.BP_SYS \in c.coding
           isDia == LOINC.BP_DIA \in c.coding
           has == c.value.type # "undefined"
       IN  ComponentLoop(Tail(comps),
             [sys |-> IF isSys /\ has THEN c.value ELSE acc.sys,
              dia |-> IF isDia /\ has THEN c.value ELSE acc.dia])

extractBP(obs) ==
  IF codeHas(obs, LOINC.BP_PANEL) /\ obs.componentIsArray
  THEN LET raw == ComponentLoop(obs.component, [sys |-> NoValue, dia |-> NoValue])
       IN  [sys |-> IF raw.sys.type = "number" THEN raw.sys.num ELSE null,
            dia |-> IF raw.dia.type = "number" THEN raw.dia.num ELSE null]
  ELSE IF codeHas(obs, LOINC.BP_SYS) THEN [sys |-> numericValueFromObs(obs), dia |-> null]
  ELSE IF codeHas(obs, LOINC.BP_DIA) THEN [sys |-> null, dia |-> numericValueFromObs(obs)]
  ELSE [sys |-> null, dia |-> null]

pickUnit(obs) == obs.unit

(* ------------------------------------------------------------------ *)
(* fetchVitals, from the Observations of the bundle onwards            *)
(* ------------------------------------------------------------------ *)
EmptySeries ==
  [series |-> [bpSys |-> <<>>, bpDia |-> <<>>, hr |-> <<>>, temp |-> <<>>, spo2 |-> <<>>],
   when |-> [bpSys |-> null, bpDia |-> null, hr |-> null, temp |-> null, spo2 |-> null],
   units |-> [hr |-> "", temp |-> "", spo2 |-> "", bp |-> "mmHg"]]

\* "if (typeof v === number) { series.k.push(v); if (!when.k) when.k = dt }"
PushValue(acc, k, v, dt) ==
  IF TypeofNumber(v)
  THEN [acc EXCEPT !.series[k] = Append(@, v),
                   !.when[k] = IF @ = null THEN dt ELSE @]
  ELSE acc

\* the same with "if (!units.k) units.k = pickUnit(o)"
PushValueUnit(acc, k, v, dt, unit) ==
  IF TypeofNumber(v)
  THEN [PushValue(acc, k, v, dt) EXCEPT !.units[k] = IF @ = "" THEN unit ELSE @]
  ELSE acc

\* the body of "for (const o of obs)"
VitalsLoopBody(acc, o) ==
  LET dt == obsEffectiveDate(o)
      b0 == IF \/ codeHas(o, LOINC.BP_PANEL)
               \/ codeHas(o, LOINC.BP_SYS)
               \/ codeHas(o, LOINC.BP_DIA)
            THEN LET bp == extractBP(o)
                 IN  PushValue(PushValue(acc, "bpSys", bp.sys, dt), "bpDia", bp.dia, dt)
            ELSE acc
      b1 == IF codeHas(o, LOINC.HR)
            THEN PushValueUnit(b0, "hr", numericValueFromObs(o), dt, pickUnit(o))
            ELSE b0
      b2 == IF codeHas(o, LOINC.TEMP)
            THEN PushValueUnit(b1, "temp", numericValueFromObs(o), dt, pickUnit(o))
            ELSE b1
  IN  IF codeHas(o, LOINC.SPO2)
      THEN PushValueUnit(b2, "spo2", numericValueFromObs(o), dt, pickUnit(o))
      ELSE b2

RECURSIVE VitalsLoop(_, _)
VitalsLoop(obs, acc) ==
  IF obs = <<>> THEN acc ELSE VitalsLoop(Tail(obs), VitalsLoopBody(acc, Head(obs)))

\* an empty series gives the number 0
FirstOrZero(series) == IF series = <<>> THEN 0 ELSE series[1]

\* series[0] ?? null
FirstOrNull(series) == IF series = <<>> THEN null ELSE series[1]

Reverse(s) == [i \in 1..Len(s) |-> s[Len(s) + 1 - i]]

\* series.slice(0, 24).reverse().slice(-12)
SparkOf(series) ==
  LET head == SubSeq(series, 1, IF Len(series) < 24 THEN Len(series) ELSE 24)
      rev == Reverse(head)
  IN  SubSeq(rev, IF Len(rev) > 12 THEN Len(rev) - 11 ELSE 1, Len(rev))

fetchVitalsOf(obs) ==
  LET acc == VitalsLoop(obs, EmptySeries)
  IN  [latest |-> [bpSys |-> FirstOrNull(acc.series.bpSys),
                   bpDia |-> FirstOrNull(acc.series.bpDia),
                   hr |-> FirstOrNull(acc.series.hr),
                   temp |-> FirstOrNull(acc.series.temp),
                   spo2 |-> FirstOrNull(acc.series.spo2)],
       when |-> acc.when,
       units |-> acc.units,
       spark |-> [bpSys |-> SparkOf(acc.series.bpSys), hr |-> SparkOf(acc.series.hr),
                  temp |-> SparkOf(acc.series.temp), spo2 |-> SparkOf(acc.series.spo2)],
       rawCount |-> Len(obs)]

(* ------------------------------------------------------------------ *)
(* The FHIR server: what the four fetches of one patient return when    *)
(* they succeed.  fetchVitals reduces the Observation bundle to the     *)
(* latest value of each vital.                                          *)
(* ------------------------------------------------------------------ *)
NSubj == 4
Subjects == 1..NSubj

NoVitals == [bpSys |-> null, bpDia |-> null, hr |-> null, temp |-> null, spo2 |-> null]

fetchVitals(pid) ==
  [latest |->
     CASE pid = 1 -> [NoVitals EXCEPT !.bpSys = 190, !.bpDia = 100]
       [] pid = 2 -> [NoVitals EXCEPT !.spo2 = 92]
       [] pid = 3 -> NoVitals
       [] OTHER   -> [bpSys |-> 120, bpDia |-> 80, hr |-> 70, temp |-> 370, spo2 |-> 98]]

\* enc[0].period.start of the newest encounter, null when there is none
fetchEncounters(pid) == IF pid = 3 THEN null ELSE 20250100 + pid

(* ------------------------------------------------------------------ *)
(* Worklist entries (snapshotByPatient values)                          *)
(* ------------------------------------------------------------------ *)
SnapEntry(pid, r) ==
  LET v == fetchVitals(pid)
      triage == computeTriage(v.latest, r)
  IN  [triage |-> triage.level,
       triageReasons |-> triage.reasons,
       missing |-> computeCompleteness(v.latest, DefaultWanted),
       lastEncounter |-> fetchEncounters(pid),
       vitalsLatest |-> v.latest]

\* a degraded entry that claims every vital is there
DegradedEntryComplete ==
  [triage |-> "UNKNOWN",
   triageReasons |-> <<Reason("Unable to fetch preview.", 0)>>,
   missing |-> <<>>]

\* the snapshot the mapper builds for each patient once its fetches resolved
\* (rules is the default rule set: setRules is never called)
SnapOf == [pid \in Subjects |-> SnapEntry(pid, DefaultRules)]

DegradedEntry ==
  [triage |-> "UNKNOWN",
   triageReasons |-> <<Reason("Unable to fetch preview.", 0)>>,
   missing |-> <<"bpSys", "hr", "temp", "spo2">>]

\* setSnapshotByPatient((prev) => ({ [pid]: e })): the spread forgotten
CommitOnlyKey(prev, pid, e) == [k \in {pid} |-> e]

\* setSnapshotByPatient((prev) => ({ ...prev, [pid]: e }))
Commit(prev, pid, e) ==
  [k \in (DOMAIN prev) \cup {pid} |-> IF k = pid THEN e ELSE prev[k]]

\* a catch block that swallows the error
CatchSwallow(prev, pid) == prev

\* catch (e) { setSnapshotByPatient(... degraded entry ...) }
CatchCommit(prev, pid) == Commit(prev, pid, DegradedEntry)

(* ------------------------------------------------------------------ *)
(* mapLimit and the mapper of the worklist effect                       *)
(* ------------------------------------------------------------------ *)
Limit == 3

\* "if (cancelled) return; if (snapshotByPatient[pid]) return;" where
\* snapshotByPatient is the value the effect's render captured
MapperSkipsNoCache(p, pid) == p.cancelled

\* a mapper that does not look at the cancelled flag
MapperSkipsCached(p, pid) == pid \in DOMAIN p.closure

MapperSkips(p, pid) == p.cancelled \/ pid \in DOMAIN p.closure

NextCursorSkipping(i) == i + 2

\* i++
NextCursor(i) == i + 1

\* The workers of a pass are anonymous async closures: the state of the pool
\* is the set of indices whose mapper awaits its fetches (awaiting) and the
\* number of workers that have left the loop (exited).
\*
\* The synchronous part of the worker loops of one pass, for k workers that
\* can run: each takes idx = i++, exits when idx >= items.length, and
\* otherwise calls the mapper, which either returns at once (the worker goes
\* round its loop again in a later microtask) or starts its four fetches and
\* awaits their Promise.all.
RECURSIVE RunWorkers(_, _)
RunWorkers(p, k) ==
  IF k = 0 THEN p
  ELSE
    LET idx == p.i
    IN  IF idx >= Len(p.list)
        THEN RunWorkers([p EXCEPT !.i = NextCursor(idx), !.exited = @ + 1], k - 1)
        ELSE IF MapperSkips(p, p.list[idx + 1])
             THEN RunWorkers([p EXCEPT !.i = NextCursor(idx), !.claims[idx + 1] = @ + 1], k)
             ELSE RunWorkers([p EXCEPT !.i = NextCursor(idx), !.claims[idx + 1] = @ + 1,
                                       !.awaiting = @ \cup {idx}], k - 1)

\* the effect body: cancelled = false, list = ids, mapLimit(list, 3, mapper)
StartPass(list, snap) ==
  RunWorkers([list |-> list,
              closure |-> snap,
              cancelled |-> FALSE,
              i |-> 0,
              claims |-> [k \in 1..Len(list) |-> 0],
              awaiting |-> {},
              exited |-> 0],
             Limit)

\* a worker that dies with its mapper instead of looping
ResumeDead(p, idx) == [p EXCEPT !.awaiting = @ \ {idx}]

\* the mapper of index idx returned (after its commit): its worker goes
\* round its loop
Resume(p, idx) == RunWorkers([p EXCEPT !.awaiting = @ \ {idx}], 1)

\* await Promise.all(workers) has resolved
PassResolved(p) == p.exited = Limit

MaxPasses == 2

\* the patients whose fetches the server may reject
FlakySubjects == {1, 2}

\* the patient lists a search can return
ShortList == <<1, 2>>
RotList == [k \in 1..NSubj |-> (k % NSubj) + 1]
PatientLists == {<<>>, ShortList, RotList}

VARIABLES rules, clsLatest, clsResult, patients, snapshotByPatient, passes,
          clsMemo, obsBundle, vitals, cmpWanted, cmpMissing

\* the variables of the extraction and completeness checks
extractVars == <<obsBundle, vitals, cmpWanted, cmpMissing>>

\* the worklist view: filter and sort mode
VARIABLES worklistFilter, sortMode

viewVars == <<worklistFilter, sortMode>>

\* the selected patient, its story caches and the note
VARIABLES selectedPatientId, storyPending, storyByPatient, aiNote, now

noteVars == <<selectedPatientId, storyPending, storyByPatient, aiNote, now>>

\* the single-list variant: selection and its Observation list
VARIABLES selectedPatient, observations, loadingObs, obsRequests

singleVars == <<selectedPatient, observations, loadingObs, obsRequests>>

uiVars == <<viewVars, noteVars, singleVars>>

vars == <<rules, clsLatest, clsResult, patients, snapshotByPatient, passes,
          clsMemo, extractVars, uiVars>>

NoResult == [level |-> "NONE", reasons |-> <<>>]

\* no earlier evaluation is remembered
NoMemo == [latest |-> NoVitals, rules |-> DefaultRules, result |-> NoResult, other |-> FALSE]

\* fetchVitals has not returned; computeCompleteness has not been called
NoExtraction == [rawCount |-> -1]
NotEvaluated == <<"not evaluated">>

\* nothing selected, no story loaded, no note; the clock (in minutes) at 0
NoNote == [empty |-> TRUE]

InitView ==
  /\ worklistFilter = "ALL"
  /\ sortMode = "RISK"

InitNote ==
  /\ selectedPatientId = null
  /\ storyPending = {}
  /\ storyByPatient = <<>>
  /\ aiNote = NoNote
  /\ now = 0

InitSingle ==
  /\ selectedPatient = null
  /\ observations = <<>>
  /\ loadingObs = FALSE
  /\ obsRequests = <<>>

Init ==
  /\ InitView
  /\ InitNote
  /\ InitSingle
  /\ rules = DefaultRules
  /\ clsLatest = NoVitals
  /\ clsResult = NoResult
  /\ patients = <<>>
  /\ snapshotByPatient = <<>>
  /\ passes = <<>>
  /\ clsMemo = NoMemo
  /\ obsBundle = <<>>
  /\ vitals = NoExtraction
  /\ cmpWanted = DefaultWanted
  /\ cmpMissing = NotEvaluated

\* setSelectedPatientId((prev) => prev || firstId), firstId = list[0].id || null
KeepOrFirst(prev, list) ==
  IF prev # null THEN prev ELSE IF list = <<>> THEN null ELSE list[1]

\* the effect on selectedPatientId: when it changed and is set, the four
\* story fetches of the patient start
StoryEffect(prev, sel, pending) ==
  IF sel # prev /\ sel # null THEN pending \cup {sel} ELSE pending

\* cleanup of the previous run of the effect: cancelled = true
Cleanup(ps) ==
  IF ps = <<>> THEN ps ELSE [ps EXCEPT ![Len(ps)].cancelled = TRUE]

\* searchPatients: the search response arrives, setPatients(list); the
\* worklist effect re-runs: cleanup of the previous run, then a new pass
SetPatients(list) ==
  /\ patients' = list
  /\ passes' = IF list = <<>>
               THEN Cleanup(passes)
               ELSE Append(Cleanup(passes), StartPass(list, snapshotByPatient))
  /\ selectedPatientId' = KeepOrFirst(selectedPatientId, list)
  /\ storyPending' = StoryEffect(selectedPatientId, selectedPatientId', storyPending)
  /\ UNCHANGED <<rules, clsLatest, clsResult, snapshotByPatient, clsMemo, extractVars,
                 viewVars, storyByPatient, aiNote, now, singleVars>>

searchPatients(list) == Len(passes) < MaxPasses /\ SetPatients(list)

\* the four fetches of the mapper of index idx have resolved: Promise.all
\* resolves, the mapper builds the snapshot, commits it and returns
FetchResolve(n, idx) ==
  /\ idx \in passes[n].awaiting
  /\ snapshotByPatient' =
       Commit(snapshotByPatient, passes[n].list[idx + 1], SnapOf[passes[n].list[idx + 1]])
  /\ passes' = [passes EXCEPT ![n] = Resume(passes[n], idx)]
  /\ UNCHANGED <<rules, clsLatest, clsResult, patients, clsMemo, extractVars, uiVars>>

\* one of the fetches the mapper of index idx awaits rejects: Promise.all
\* rejects, the catch block commits the degraded entry and the mapper returns
FetchReject(n, idx) ==
  /\ idx \in passes[n].awaiting
  /\ snapshotByPatient' = CatchCommit(snapshotByPatient, passes[n].list[idx + 1])
  /\ passes' = [passes EXCEPT ![n] = Resume(passes[n], idx)]
  /\ UNCHANGED <<rules, clsLatest, clsResult, patients, clsMemo, extractVars, uiVars>>

\* the server rejects a fetch of one of the patients in FlakySubjects
FetchRejectFlaky(n, idx) ==
  /\ idx \in passes[n].awaiting
  /\ passes[n].list[idx + 1] \in FlakySubjects
  /\ FetchReject(n, idx)

Next ==
  \/ \E list \in PatientLists : searchPatients(list)
  \/ \E n \in 1..Len(passes), idx \in 0..(NSubj - 1) : FetchResolve(n, idx)
  \/ \E n \in 1..Len(passes), idx \in 0..(NSubj - 1) : FetchRejectFlaky(n, idx)

Spec == Init /\ [][Next]_vars

\* the fetches of a mapper settle
FetchSettles ==
  \E n \in 1..Len(passes), idx \in 0..(NSubj - 1) : FetchResolve(n, idx) \/ FetchReject(n, idx)

\* Liveness: the server answers every fetch it was asked for (while fetches
\* are awaited, one of them eventually settles) and may reject any of them;
\* at most MaxFairPasses passes are started, and an empty search result may
\* cancel the running pass at any time
MaxFairPasses == 1

searchPatientsFair(list) ==
  /\ list = <<>> \/ Len(passes) < MaxFairPasses
  /\ SetPatients(list)

NextFair ==
  \/ \E list \in PatientLists : searchPatientsFair(list)
  \/ \E n \in 1..Len(passes), idx \in 0..(NSubj - 1) : FetchResolve(n, idx)
  \/ \E n \in 1..Len(passes), idx \in 0..(NSubj - 1) : FetchReject(n, idx)

FairSpec == Init /\ [][NextFair]_vars /\ WF_vars(FetchSettles)

(* ------------------------------------------------------------------ *)
(* computeTriage on its own: snapshots and rule sets drawn from small   *)
(* sets around the cutoffs                                              *)
(* ------------------------------------------------------------------ *)
\* red cutoff below the amber cutoff for systolic pressure
MalformedRules == [DefaultRules EXCEPT !.bpRedSys = 140, !.bpAmberSys = 180]
StrictRules ==
  [DefaultRules EXCEPT !.bpAmberSys = 120, !.hrAmber = 70, !.spo2Amber = 98, !.spo2Red = 92]
RuleSets == {DefaultRules, MalformedRules, StrictRules}

LatestSet ==
  [bpSys : {null, NaN, 120, 150, 190},
   bpDia : {null, 80, 100, 125},
   hr : {null, 70, 110, 135},
   temp : {null, 370, 380, 395},
   spo2 : {null, 98, 92, 88}]

InitTriage ==
  /\ InitView
  /\ InitNote
  /\ InitSingle
  /\ rules \in RuleSets
  /\ clsLatest \in LatestSet
  /\ clsResult = NoResult
  /\ patients = <<>>
  /\ snapshotByPatient = <<>>
  /\ passes = <<>>
  /\ clsMemo = NoMemo
  /\ obsBundle = <<>>
  /\ vitals = NoExtraction
  /\ cmpWanted = DefaultWanted
  /\ cmpMissing = NotEvaluated

Classify ==
  /\ clsResult = NoResult
  /\ clsResult' = computeTriage(clsLatest, rules)
  /\ UNCHANGED <<rules, clsLatest, patients, snapshotByPatient, passes, clsMemo, extractVars, uiVars>>

NextTriage == Classify

SpecTriage == InitTriage /\ [][NextTriage]_vars

(* ------------------------------------------------------------------ *)
(* computeTriage called again and again: every call starts from its own *)
(* "let level = GREEN" and "const reasons = []".  One earlier call is   *)
(* remembered, with whether a call with other arguments ran after it.   *)
(* ------------------------------------------------------------------ *)
RepeatLatest ==
  {NoVitals,
   [NoVitals EXCEPT !.bpSys = 190, !.hr = 110],
   [NoVitals EXCEPT !.spo2 = 92],
   [bpSys |-> 120, bpDia |-> 80, hr |-> 70, temp |-> 370, spo2 |-> 98]}

Remember(l, r) ==
  {[clsMemo EXCEPT !.other = @ \/ (clsMemo.result # NoResult
                                    /\ <<l, r>> # <<clsMemo.latest, clsMemo.rules>>)]}
  \cup (IF clsResult = NoResult THEN {}
        ELSE {[latest |-> clsLatest, rules |-> rules, result |-> clsResult,
               other |-> <<l, r>> # <<clsLatest, rules>>]})

\* level lives outside the function and is carried from call to call
ReclassifyCarried(l, r) ==
  /\ rules' = r
  /\ clsLatest' = l
  /\ clsResult' =
       [computeTriage(l, r) EXCEPT
          !.level = IF clsResult = NoResult THEN @ ELSE bump(clsResult.level, @)]
  /\ clsMemo' \in Remember(l, r)
  /\ UNCHANGED <<patients, snapshotByPatient, passes, extractVars, uiVars>>

Reclassify(l, r) ==
  /\ rules' = r
  /\ clsLatest' = l
  /\ clsResult' = computeTriage(l, r)
  /\ clsMemo' \in Remember(l, r)
  /\ UNCHANGED <<patients, snapshotByPatient, passes, extractVars, uiVars>>

NextRepeat == \E l \in RepeatLatest, r \in RuleSets : Reclassify(l, r)

SpecRepeat == Init /\ [][NextRepeat]_vars

(* ------------------------------------------------------------------ *)
(* fetchVitals and computeCompleteness on their own: the bundle is any  *)
(* sequence of at most MaxObs of the Observations of ObsSet             *)
(* ------------------------------------------------------------------ *)
MaxObs == 3

NoObs ==
  [coding |-> {}, display |-> "", effectiveDateTime |-> null, effectiveInstant |-> null,
   issued |-> null, periodStart |-> null, value |-> NoValue, unit |-> "",
   componentIsArray |-> FALSE, component |-> <<>>]

BPComponents(sys, dia) ==
  <<[coding |-> {LOINC.BP_SYS}, value |-> NumValue(sys)],
    [coding |-> {LOINC.BP_DIA}, value |-> NumValue(dia)]>>

HrNew == [NoObs EXCEPT !.coding = {LOINC.HR}, !.display = "Heart rate",
                       !.effectiveDateTime = 3, !.value = NumValue(110), !.unit = "/min"]
HrOld == [NoObs EXCEPT !.coding = {LOINC.HR}, !.display = "Heart rate",
                       !.effectiveDateTime = 1, !.value = NumValue(70), !.unit = "bpm"]
HrText == [NoObs EXCEPT !.coding = {LOINC.HR}, !.display = "Heart rate",
                        !.effectiveDateTime = 2, !.value = StrValue(<<"n", "/", "a">>)]
TempString == [NoObs EXCEPT !.coding = {LOINC.TEMP}, !.issued = 3, !.periodStart = 1,
                            !.value = StrValue(<<" ", "3", "8", "0">>), !.unit = "Cel"]
Spo2Undated == [NoObs EXCEPT !.coding = {LOINC.SPO2}, !.value = NumValue(92)]
Spo2Dated == [NoObs EXCEPT !.coding = {LOINC.SPO2}, !.effectiveDateTime = 1,
                           !.value = NumValue(97)]
BpPanel == [NoObs EXCEPT !.coding = {LOINC.BP_PANEL}, !.effectiveDateTime = 2,
                         !.componentIsArray = TRUE, !.component = BPComponents(190, 100)]
BpPanelOtherCode == [NoObs EXCEPT !.coding = {"85354-9"}, !.display = "Blood pressure panel",
                                  !.effectiveDateTime = 3, !.componentIsArray = TRUE,
                                  !.component = BPComponents(150, 95)]
SysDirect == [NoObs EXCEPT !.coding = {LOINC.BP_SYS}, !.effectiveInstant = 2,
                           !.value = NumValue(120)]
PulseByText == [NoObs EXCEPT !.coding = {"8889-8"}, !.display = "Pulse rate",
                             !.effectiveDateTime = 3, !.value = NumValue(88)]
BodyWeight == [NoObs EXCEPT !.coding = {"29463-7"}, !.display = "Body weight",
                            !.effectiveDateTime = 3, !.value = NumValue(80)]

ObsSet ==
  {HrNew, HrOld, HrText, TempString, Spo2Undated, Spo2Dated, BpPanel, BpPanelOtherCode,
   SysDirect, PulseByText, BodyWeight}

Bundles == UNION {[1..n -> ObsSet] : n \in 0..MaxObs}

WantedSet == {DefaultWanted, <<>>, <<"spo2", "bpDia", "bpSys">>, <<"hr", "temp", "hr">>}

InitExtract ==
  /\ InitView
  /\ InitNote
  /\ InitSingle
  /\ rules = DefaultRules
  /\ clsLatest = NoVitals
  /\ clsResult = NoResult
  /\ patients = <<>>
  /\ snapshotByPatient = <<>>
  /\ passes = <<>>
  /\ clsMemo = NoMemo
  /\ obsBundle \in Bundles
  /\ vitals = NoExtraction
  /\ cmpWanted = DefaultWanted
  /\ cmpMissing = NotEvaluated

\* fetchVitals returns for the bundle the server sent
Extract ==
  /\ vitals = NoExtraction
  /\ vitals' = fetchVitalsOf(obsBundle)
  /\ UNCHANGED <<rules, clsLatest, clsResult, patients, snapshotByPatient, passes,
                 clsMemo, obsBundle, cmpWanted, cmpMissing, uiVars>>

\* computeCompleteness(vitals.latest, w)
Completeness(w) ==
  /\ vitals # NoExtraction
  /\ cmpMissing = NotEvaluated
  /\ cmpWanted' = w
  /\ cmpMissing' = computeCompleteness(vitals.latest, w)
  /\ UNCHANGED <<rules, clsLatest, clsResult, patients, snapshotByPatient, passes,
                 clsMemo, obsBundle, vitals, uiVars>>

NextExtract == Extract \/ \E w \in WantedSet : Completeness(w)

SpecExtract == InitExtract /\ [][NextExtract]_vars

(* ------------------------------------------------------------------ *)
(* The worklist view: filteredWorklist                                  *)
(* ------------------------------------------------------------------ *)
WorklistFilters == {"ALL", "RED", "AMBER", "GREEN", "MISSING"}
SortModes == {"RISK", "NAME", "RECENT"}

\* snap?.triage || "UNKNOWN", with snap = snapshotByPatient[p.id] || null
SnapTriage(snaps, pid) ==
  IF pid \in DOMAIN snaps THEN snaps[pid].triage ELSE "UNKNOWN"

\* snap?.missing || []
SnapMissing(snaps, pid) ==
  IF pid \in DOMAIN snaps THEN snaps[pid].missing ELSE <<>>

\* snap?.lastEncounter (null for undefined: the degraded entry has none)
SnapLastEncounter(snaps, pid) ==
  IF pid \in DOMAIN snaps /\ "lastEncounter" \in DOMAIN snaps[pid]
  THEN snaps[pid].lastEncounter
  ELSE null

\* a filter that keeps every row whatever the pill
KeepsAlways(snaps, f, pid) == TRUE

\* the callback of list.filter
Keeps(snaps, f, pid) ==
  IF f = "ALL" THEN TRUE
  ELSE IF f = "MISSING" THEN Len(SnapMissing(snaps, pid)) > 0
  ELSE SnapTriage(snaps, pid) = f

\* order[level] || 0 with order = { RED: 3, AMBER: 2, GREEN: 1, UNKNOWN: 0 }
ScoreOrder(l) ==
  CASE l = "RED" -> 3 [] l = "AMBER" -> 2 [] l = "GREEN" -> 1 [] OTHER -> 0

\* a score in which a missing vital outweighs a triage level
scoreMissingFirst(snaps, pid) ==
  ScoreOrder(SnapTriage(snaps, pid)) * 10
    + (IF Len(SnapMissing(snaps, pid)) > 0 THEN 20 ELSE 0)

\* score(snap) in tenths: order[triage] + (missing.length ? 0.2 : 0)
score(snaps, pid) ==
  ScoreOrder(SnapTriage(snaps, pid)) * 10
    + (IF Len(SnapMissing(snaps, pid)) > 0 THEN 2 ELSE 0)

\* new Date(x || 0).getTime(): timestamps are numbers of days since the epoch
DateTime(x) == IF x = null THEN 0 ELSE x

\* getPatientDisplayName(p) as the rank of the name in localeCompare order
getPatientDisplayName(pid) == (pid + 1) % 3

\* the comparator of filtered.sort: negative when a goes first
Compare(snaps, mode, a, b) ==
  IF mode = "NAME" THEN getPatientDisplayName(a) - getPatientDisplayName(b)
  ELSE IF mode = "RECENT"
  THEN DateTime(SnapLastEncounter(snaps, b)) - DateTime(SnapLastEncounter(snaps, a))
  ELSE score(snaps, b) - score(snaps, a)

\* Array.prototype.sort is stable: x goes after the rows that do not come
\* after it
RECURSIVE InsertRow(_, _, _, _)
InsertRow(s, x, snaps, mode) ==
  IF s = <<>> THEN <<x>>
  ELSE IF Compare(snaps, mode, s[Len(s)], x) <= 0 THEN Append(s, x)
  ELSE Append(InsertRow(SubSeq(s, 1, Len(s) - 1), x, snaps, mode), s[Len(s)])

RECURSIVE SortRows(_, _, _)
SortRows(s, snaps, mode) ==
  IF s = <<>> THEN <<>>
  ELSE InsertRow(SortRows(SubSeq(s, 1, Len(s) - 1), snaps, mode), s[Len(s)], snaps, mode)

\* the rows of the worklist, by patient id: patients.map, filter, sort
filteredWorklistOf(ps, snaps, f, mode) ==
  LET Test(pid) == Keeps(snaps, f, pid)
  IN  SortRows(SelectSeq(ps, Test), snaps, mode)

\* useMemo(..., [patients, snapshotByPatient, worklistFilter, sortMode])
filteredWorklist ==
  filteredWorklistOf(patients, snapshotByPatient, worklistFilter, sortMode)

\* the snapshot the mapper builds from the vitals and the newest encounter
SnapEntryOf(latest, enc, r) ==
  [triage |-> computeTriage(latest, r).level,
   triageReasons |-> computeTriage(latest, r).reasons,
   missing |-> computeCompleteness(latest, DefaultWanted),
   lastEncounter |-> enc,
   vitalsLatest |-> latest]

\* vitals of the patients of a worklist: GREEN complete, RED with vitals
\* missing, AMBER complete, AMBER with vitals missing
RankVitals ==
  {[bpSys |-> 120, bpDia |-> 80, hr |-> 70, temp |-> 370, spo2 |-> 98],
   [NoVitals EXCEPT !.bpSys = 190, !.bpDia = 100],
   [bpSys |-> 120, bpDia |-> 80, hr |-> 70, temp |-> 370, spo2 |-> 92],
   [NoVitals EXCEPT !.spo2 = 92]}

\* the date of the newest encounter: none, one before 1970, one after
RankEncounters == {null, -400, 20000}

RankEntries ==
  {SnapEntryOf(v, e, DefaultRules) : v \in RankVitals, e \in RankEncounters}
    \cup {DegradedEntry}

RankList == <<1, 2, 3>>
RankLists == {RankList, <<3, 1>>}

\* a worklist whose previews have arrived, for some of its patients
InitRank ==
  /\ InitView
  /\ InitNote
  /\ InitSingle
  /\ rules = DefaultRules
  /\ clsLatest = NoVitals
  /\ clsResult = NoResult
  /\ patients \in RankLists
  /\ snapshotByPatient \in UNION {[S -> RankEntries] : S \in SUBSET {1, 2, 3}}
  /\ passes = <<>>
  /\ clsMemo = NoMemo
  /\ obsBundle = <<>>
  /\ vitals = NoExtraction
  /\ cmpWanted = DefaultWanted
  /\ cmpMissing = NotEvaluated

\* a filter pill is clicked
setWorklistFilter(f) ==
  /\ worklistFilter' = f
  /\ UNCHANGED <<rules, clsLatest, clsResult, patients, snapshotByPatient, passes,
                 clsMemo, extractVars, sortMode, noteVars, singleVars>>

\* the sort select changes
setSortMode(mode) ==
  /\ sortMode' = mode
  /\ UNCHANGED <<rules, clsLatest, clsResult, patients, snapshotByPatient, passes,
                 clsMemo, extractVars, worklistFilter, noteVars, singleVars>>

NextRank ==
  \/ \E f \in WorklistFilters : setWorklistFilter(f)
  \/ \E mode \in SortModes : setSortMode(mode)

SpecRank == InitRank /\ [][NextRank]_vars

(* ------------------------------------------------------------------ *)
(* The selected patient, its story and the note                         *)
(* ------------------------------------------------------------------ *)
\* the server's Conditions and MedicationRequests of a patient
fetchConditions(pid) == IF pid = 1 THEN <<"Hypertension">> ELSE <<>>
fetchMedicationRequests(pid) == IF pid = 2 THEN <<"Oxygen therapy">> ELSE <<>>

\* what Promise.all of the four story fetches resolves with; the four caches
\* obsByPatient, encByPatient, condByPatient, medByPatient are set together
StoryOf(pid) ==
  [v |-> fetchVitals(pid), enc |-> fetchEncounters(pid),
   cond |-> fetchConditions(pid), meds |-> fetchMedicationRequests(pid)]

\* patients.find((p) => p.id === selectedPatientId) || null
FindSelected(ps, sel) ==
  IF \E i \in 1..Len(ps) : ps[i] = sel THEN sel ELSE null

\* the name of the selected patient, -1 for "Unnamed patient"
SelectedName(ps, sel) ==
  IF FindSelected(ps, sel) = null THEN -1 ELSE getPatientDisplayName(sel)

selectedTriageOf(stories, sel, r) ==
  IF sel \in DOMAIN stories
  THEN computeTriage(stories[sel].v.latest, r)
  ELSE [level |-> "UNKNOWN", reasons |-> <<Reason("Loading vitals...", 0)>>]

selectedMissingOf(stories, sel) ==
  IF sel \in DOMAIN stories
  THEN computeCompleteness(stories[sel].v.latest, DefaultWanted)
  ELSE <<"bpSys", "hr", "temp", "spo2">>

\* fmtDateTime: nothing for no date, else the date to the minute (the clock
\* and the timestamps count half minutes)
fmtDateTime(iso) ==
  IF iso = null THEN [shown |-> FALSE] ELSE [shown |-> TRUE, minute |-> iso \div 2]

\* s.slice(0, 5)
Slice5(s) == SubSeq(s, 1, IF Len(s) < 5 THEN Len(s) ELSE 5)

\* noteLines: the lines that are not fixed text
NoteLines(ps, stories, sel, r, t) ==
  [empty |-> FALSE,
   patientName |-> SelectedName(ps, sel),
   patientId |-> sel,
   generated |-> fmtDateTime(t),
   triageLevel |-> selectedTriageOf(stories, sel, r).level,
   triageReasons |-> selectedTriageOf(stories, sel, r).reasons,
   lastEncounter |-> fmtDateTime(IF sel \in DOMAIN stories THEN stories[sel].enc ELSE null),
   completenessHours |-> r.completenessHours,
   missing |-> selectedMissingOf(stories, sel),
   conditions |-> IF sel \in DOMAIN stories THEN Slice5(stories[sel].cond) ELSE <<>>,
   medications |-> IF sel \in DOMAIN stories THEN Slice5(stories[sel].meds) ELSE <<>>]

\* the first search response arrives
NoteList == ShortList
searchPatientsFirst == passes = <<>> /\ SetPatients(NoteList)

\* a row of the worklist or of the patient list is clicked
selectPatient(pid) ==
  /\ \E i \in 1..Len(patients) : patients[i] = pid
  /\ selectedPatientId' = pid
  /\ storyPending' = StoryEffect(selectedPatientId, pid, storyPending)
  /\ UNCHANGED <<rules, clsLatest, clsResult, patients, snapshotByPatient, passes,
                 clsMemo, extractVars, viewVars, storyByPatient, aiNote, now, singleVars>>

\* the four story fetches of pid have resolved
StoryResolve(pid) ==
  /\ pid \in storyPending
  /\ storyPending' = storyPending \ {pid}
  /\ storyByPatient' = Commit(storyByPatient, pid, StoryOf(pid))
  /\ UNCHANGED <<rules, clsLatest, clsResult, patients, snapshotByPatient, passes,
                 clsMemo, extractVars, viewVars, selectedPatientId, aiNote, now, singleVars>>

\* one of them rejects: catch (e) { keep UI alive }
StoryReject(pid) ==
  /\ pid \in storyPending
  /\ storyPending' = storyPending \ {pid}
  /\ UNCHANGED <<rules, clsLatest, clsResult, patients, snapshotByPatient, passes,
                 clsMemo, extractVars, viewVars, selectedPatientId, storyByPatient,
                 aiNote, now, singleVars>>

\* generateAiSummary: it awaits nothing, so aiBusy is true only inside it
generateAiSummary ==
  /\ selectedPatientId # null
  /\ aiNote' = NoteLines(patients, storyByPatient, selectedPatientId, rules, now)
  /\ UNCHANGED <<rules, clsLatest, clsResult, patients, snapshotByPatient, passes,
                 clsMemo, extractVars, viewVars, selectedPatientId, storyPending,
                 storyByPatient, now, singleVars>>

\* half a minute passes
MaxNow == 2

Tick ==
  /\ now < MaxNow
  /\ now' = now + 1
  /\ UNCHANGED <<rules, clsLatest, clsResult, patients, snapshotByPatient, passes,
                 clsMemo, extractVars, viewVars, selectedPatientId, storyPending,
                 storyByPatient, aiNote, singleVars>>

NextNote ==
  \/ searchPatientsFirst
  \/ \E pid \in Subjects : selectPatient(pid)
  \/ \E pid \in Subjects : StoryResolve(pid)
  \/ \E pid \in Subjects : StoryReject(pid)
  \/ generateAiSummary
  \/ Tick

SpecNote == Init /\ [][NextNote]_vars

(* ------------------------------------------------------------------ *)
(* The single-list variant: one Observation list for the selection      *)
(* ------------------------------------------------------------------ *)
\* the Observations the server returns for a patient
ObsItems(pid) == <<[subject |-> pid]>>

\* the number of Observation loads that are started
MaxLoads == 3

SingleLists == {<<>>, ShortList}

\* setSelectedPatient(sel), and the effect on selectedPatient?.id: when the
\* id changed and is set, fetchObservationsForPatient(id) runs up to its
\* fetch: setLoadingObs(true), setObs([]), and the request is in flight
SelectSingle(sel) ==
  /\ selectedPatient' = sel
  /\ IF sel # null /\ sel # selectedPatient
     THEN /\ Len(obsRequests) < MaxLoads
          /\ obsRequests' = Append(obsRequests, [pid |-> sel, pending |-> TRUE])
          /\ loadingObs' = TRUE
          /\ observations' = <<>>
     ELSE UNCHANGED <<obsRequests, loadingObs, observations>>

\* searchPatients, from its call to the arrival of the response:
\* setPatients(pts), and the first patient is selected, or nobody; a failed
\* request leaves the state of an empty response: no patients, nobody selected
searchPatientsSingle(pts) ==
  /\ patients' = pts
  /\ SelectSingle(IF pts = <<>> THEN null ELSE pts[1])
  /\ UNCHANGED <<rules, clsLatest, clsResult, snapshotByPatient, passes, clsMemo,
                 extractVars, viewVars, noteVars>>

\* a row of the patient list is clicked
selectPatientSingle(pid) ==
  /\ \E i \in 1..Len(patients) : patients[i] = pid
  /\ SelectSingle(pid)
  /\ UNCHANGED <<rules, clsLatest, clsResult, patients, snapshotByPatient, passes,
                 clsMemo, extractVars, viewVars, noteVars>>

\* the response of request k arrives: setObs(items), setLoadingObs(false)
ObsResolve(k) ==
  /\ k \in 1..Len(obsRequests)
  /\ obsRequests[k].pending
  /\ obsRequests' = [obsRequests EXCEPT ![k].pending = FALSE]
  /\ observations' = ObsItems(obsRequests[k].pid)
  /\ loadingObs' = FALSE
  /\ UNCHANGED <<rules, clsLatest, clsResult, patients, snapshotByPatient, passes,
                 clsMemo, extractVars, viewVars, noteVars, selectedPatient>>

\* request k fails: setObsErr(...), setLoadingObs(false)
ObsReject(k) ==
  /\ k \in 1..Len(obsRequests)
  /\ obsRequests[k].pending
  /\ obsRequests' = [obsRequests EXCEPT ![k].pending = FALSE]
  /\ loadingObs' = FALSE
  /\ UNCHANGED <<rules, clsLatest, clsResult, patients, snapshotByPatient, passes,
                 clsMemo, extractVars, viewVars, noteVars, selectedPatient, observations>>

NextSingle ==
  \/ \E pts \in SingleLists : searchPatientsSingle(pts)
  \/ \E pid \in Subjects : selectPatientSingle(pid)
  \/ \E k \in 1..MaxLoads : ObsResolve(k)
  \/ \E k \in 1..MaxLoads : ObsReject(k)

SpecSingle == Init /\ [][NextSingle]_vars

(* ------------------------------------------------------------------ *)
(* Properties of the aggregation                                        *)
(* ------------------------------------------------------------------ *)
PassIds == 1..Len(passes)

\* mappers that wait for their fetches; each has at least one fetch call in
\* flight (four when it has just started)
Indices == 0..(NSubj - 1)
Awaiting == {ni \in PassIds \X Indices : ni[2] \in passes[ni[1]].awaiting}

ListSet(list) == {list[k] : k \in 1..Len(list)}

IsDegraded(e) ==
  /\ DOMAIN e = {"triage", "triageReasons", "missing"}
  /\ e.triage = "UNKNOWN"
  /\ Len(e.triageReasons) = 1
  /\ e.triageReasons[1].text = "Unable to fetch preview."
  /\ e.missing = <<"bpSys", "hr", "temp", "spo2">>

\* a worker of pass n took index idx and started fetching its subject in
\* this step
StartsFetch(n, idx) ==
  /\ n \in 1..Len(passes')
  /\ idx \in passes'[n].awaiting
  /\ n \in 1..Len(passes) => idx \notin passes[n].awaiting

\* C1: the number of fetch calls in flight never exceeds the concurrency
\* limit 3, whatever patient-list changes started aggregation passes (stated
\* on the mappers that await fetches, each of which has a fetch in flight)
C1_InFlightWithinLimit == Cardinality(Awaiting) <= Limit

C3_FailureIsolated ==
  [][/\ \A n \in PassIds :
          \A idx \in passes[n].awaiting :
            LET pid == passes[n].list[idx + 1]
            IN  \/ /\ pid \in DOMAIN snapshotByPatient'
                   /\ IsDegraded(snapshotByPatient'[pid])
                   /\ \A o \in DOMAIN snapshotByPatient \ {pid} :
                        snapshotByPatient'[o] = snapshotByPatient[o]
                   /\ passes[n].awaiting \ {idx} \subseteq passes'[n].awaiting
                   /\ Cardinality(passes'[n].awaiting) + passes'[n].exited = Limit
                   /\ \A m \in PassIds \ {n} : passes'[m] = passes[m]
                \/ ~FetchReject(n, idx)
     /\ \A pid \in DOMAIN snapshotByPatient' :
          \/ IsDegraded(snapshotByPatient'[pid])
          \/ snapshotByPatient'[pid] = SnapOf[pid]
    ]_vars

C3_Witness ==
  /\ \E pid \in DOMAIN snapshotByPatient : IsDegraded(snapshotByPatient[pid])
  /\ \E pid \in DOMAIN snapshotByPatient : snapshotByPatient[pid] = SnapOf[pid]
  /\ Awaiting # {}

\* C4: if every fetch eventually settles, every pass that started eventually
\* completes: all its workers have left the loop and its promise resolves
C4_PassCompletes ==
  \A n \in 1..MaxFairPasses :
    (Len(passes) >= n) ~> (Len(passes) >= n /\ PassResolved(passes[n]))

C4_Witness ==
  \E n \in PassIds :
    /\ PassResolved(passes[n])
    /\ Len(passes[n].list) > Limit
    /\ passes[n].i = Len(passes[n].list) + Limit
    /\ Cardinality({pid \in ListSet(passes[n].list) :
                      pid \in DOMAIN snapshotByPatient /\ IsDegraded(snapshotByPatient[pid])}) = 1

C6_NoFetchWhenEntryExists ==
  [][\A n \in 1..MaxPasses, idx \in Indices :
       StartsFetch(n, idx) => passes'[n].list[idx + 1] \notin DOMAIN snapshotByPatient'
    ]_vars

\* C7: within one pass every index below the cursor has been taken exactly
\* once, no index is taken twice, every worker holds an index of its own or
\* has left the loop, and a resolved pass has taken every index of its list
C7_IndexClaimedOnce ==
  \A n \in PassIds :
    LET p == passes[n]
    IN  /\ \A k \in 1..Len(p.list) : p.claims[k] = (IF k <= p.i THEN 1 ELSE 0)
        /\ \A idx \in p.awaiting : idx < p.i /\ idx < Len(p.list)
        /\ Cardinality(p.awaiting) + p.exited = Limit
        /\ PassResolved(p) => \A k \in 1..Len(p.list) : p.claims[k] = 1

C7_Witness ==
  \E n \in PassIds :
    /\ Len(passes[n].list) > Limit
    /\ PassResolved(passes[n])
    /\ \A k \in 1..Len(passes[n].list) : passes[n].claims[k] = 1

\* C8: a step changes at most one key of the map, never removes a key, and a
\* commit for one subject leaves the entries of all other subjects as they were
C8_CommitChangesOneKey ==
  [][/\ DOMAIN snapshotByPatient \subseteq DOMAIN snapshotByPatient'
     /\ Cardinality({pid \in DOMAIN snapshotByPatient' :
                       \/ pid \notin DOMAIN snapshotByPatient
                       \/ snapshotByPatient'[pid] # snapshotByPatient[pid]}) <= 1
     /\ \A n \in PassIds :
          \A idx \in passes[n].awaiting :
            \/ \A o \in DOMAIN snapshotByPatient \ {passes[n].list[idx + 1]} :
                 snapshotByPatient'[o] = snapshotByPatient[o]
            \/ ~(FetchResolve(n, idx) \/ FetchReject(n, idx))
    ]_vars

C8_Witness ==
  /\ Len(passes) >= 2
  /\ Cardinality(DOMAIN snapshotByPatient) >= 3
  /\ \E a, b \in DOMAIN snapshotByPatient :
       IsDegraded(snapshotByPatient[a]) /\ snapshotByPatient[b].triage = "AMBER"

(* ------------------------------------------------------------------ *)
(* Properties of computeTriage                                          *)
(* ------------------------------------------------------------------ *)
VitalKinds == {"bpSys", "bpDia", "hr", "temp", "spo2"}

Present(latest) == {k \in VitalKinds : latest[k] # null}

\* value v of kind k meets the cutoff c
Meets(k, v, c) ==
  /\ v # null /\ v # NaN
  /\ IF k = "spo2" THEN v <= c ELSE v >= c

RedCutoff(r, k) ==
  CASE k = "bpSys" -> r.bpRedSys [] k = "bpDia" -> r.bpRedDia [] k = "hr" -> r.hrRed
    [] k = "temp" -> r.tempRed [] k = "spo2" -> r.spo2Red

AmberCutoff(r, k) ==
  CASE k = "bpSys" -> r.bpAmberSys [] k = "bpDia" -> r.bpAmberDia [] k = "hr" -> r.hrAmber
    [] k = "temp" -> r.tempAmber [] k = "spo2" -> r.spo2Amber

\* C9: the level is UNKNOWN, with the single reason that no vitals are
\* available, exactly when no vital is present; otherwise GREEN, AMBER or RED
C9_UnknownIffNoVitals ==
  clsResult # NoResult =>
    /\ (Present(clsLatest) = {}) <=> (clsResult.level = "UNKNOWN")
    /\ Present(clsLatest) = {} => Len(clsResult.reasons) = 1
    /\ Present(clsLatest) # {} => clsResult.level \in {"GREEN", "AMBER", "RED"}

\* C10: with at least one vital present the level is RED iff some present
\* vital meets its red cutoff, AMBER iff none does and some present vital
\* meets its amber cutoff, GREEN otherwise
C10_LevelByCutoffs ==
  (clsResult # NoResult /\ Present(clsLatest) # {}) =>
    LET red == \E k \in Present(clsLatest) : Meets(k, clsLatest[k], RedCutoff(rules, k))
        amber == \E k \in Present(clsLatest) : Meets(k, clsLatest[k], AmberCutoff(rules, k))
    IN  /\ (clsResult.level = "RED") <=> red
        /\ (clsResult.level = "AMBER") <=> (~red /\ amber)
        /\ (clsResult.level = "GREEN") <=> (~red /\ ~amber)
        /\ (rules = DefaultRules /\ clsLatest = [NoVitals EXCEPT !.bpSys = 190, !.bpDia = 100])
             => clsResult.level = "RED"
        /\ (rules = DefaultRules /\ clsLatest = [NoVitals EXCEPT !.spo2 = 92])
             => clsResult.level = "AMBER"

C10_Witness ==
  /\ rules = DefaultRules
  /\ clsLatest = [NoVitals EXCEPT !.spo2 = 92]
  /\ clsResult.level = "AMBER"

\* C11: within one evaluation the running level never decreases in the order
\* GREEN < AMBER < RED from one vital's block to the next, and the returned
\* level is the maximum of the intermediate levels
C11_LevelNeverDecreases ==
  clsResult # NoResult =>
    LET t == TriageSteps(clsLatest, rules)
    IN  /\ \A i \in 1..(Len(t) - 1) :
             TriageOrder(t[i].level) <= TriageOrder(t[i + 1].level)
        /\ \A i \in 1..Len(t) : TriageOrder(t[i].level) <= TriageOrder(clsResult.level)
        /\ \E i \in 1..Len(t) : t[i].level = clsResult.level

\* a red systolic pressure followed by an amber heart rate: the level stays RED
C11_Witness ==
  /\ clsResult # NoResult
  /\ rules = DefaultRules
  /\ clsLatest.bpSys = 190 /\ clsLatest.hr = 110 /\ clsLatest.spo2 = 98
  /\ clsResult.level = "RED"

KindOrder == <<"bpSys", "bpDia", "hr", "temp", "spo2">>

KindText(k) ==
  CASE k = "bpSys" -> "Systolic blood pressure >= _ mmHg."
    [] k = "bpDia" -> "Diastolic blood pressure >= _ mmHg."
    [] k = "hr" -> "Heart rate >= _ bpm (beats per minute)."
    [] k = "temp" -> "Temperature >= _ C."
    [] k = "spo2" -> "Oxygen saturation <= _%."

\* the reason a vital gives: the red cutoff when it is met, else the amber
\* cutoff when it is met, else none
Triggered(latest, r, k) ==
  IF Meets(k, latest[k], RedCutoff(r, k)) THEN <<Reason(KindText(k), RedCutoff(r, k))>>
  ELSE IF Meets(k, latest[k], AmberCutoff(r, k)) THEN <<Reason(KindText(k), AmberCutoff(r, k))>>
  ELSE <<>>

RECURSIVE TriggeredInOrder(_, _, _)
TriggeredInOrder(latest, r, kinds) ==
  IF kinds = <<>> THEN <<>>
  ELSE Triggered(latest, r, Head(kinds)) \o TriggeredInOrder(latest, r, Tail(kinds))

\* C12: the reasons list is never empty; when something triggers it is the
\* triggered reasons, at most one per vital, in the order systolic, diastolic,
\* heart rate, temperature, oxygen saturation, each naming the red cutoff when
\* it is met and else the amber cutoff; when vitals are present and nothing
\* triggers it is exactly the one no-trigger reason
C12_ReasonsInFixedOrder ==
  clsResult # NoResult =>
    LET expected == TriggeredInOrder(clsLatest, rules, KindOrder)
    IN  /\ clsResult.reasons # <<>>
        /\ Len(clsResult.reasons) <= Len(KindOrder)
        /\ expected # <<>> => clsResult.reasons = expected
        /\ (expected = <<>> /\ Present(clsLatest) # {})
             => clsResult.reasons = <<NoTriggerReason>>

\* a red systolic pressure and an amber heart rate give two reasons in order
C12_Witness ==
  /\ rules = DefaultRules
  /\ clsLatest.bpSys = 190 /\ clsLatest.bpDia = 80 /\ clsLatest.hr = 110
  /\ clsLatest.temp = 370 /\ clsLatest.spo2 = 98
  /\ clsResult.reasons = <<Reason("Systolic blood pressure >= _ mmHg.", 180),
                           Reason("Heart rate >= _ bpm (beats per minute).", 100)>>

HasValue(latest, k) == latest[k] # null /\ latest[k] # NaN

\* the elements of a sequence
Range(s) == {s[i] : i \in 1..Len(s)}

\* C14: the result is the kinds of wanted without a value in the snapshot,
\* in the order of wanted; a kind with a value is never listed, however old
\* the observation its value comes from
C14_MissingAreTheAbsentKinds ==
  cmpMissing # NotEvaluated =>
    LET Absent(k) == ~HasValue(vitals.latest, k)
    IN  /\ cmpMissing = SelectSeq(cmpWanted, Absent)
        /\ \A k \in Range(cmpWanted) : HasValue(vitals.latest, k) => k \notin Range(cmpMissing)

\* the heart rate is the oldest observation of the bundle and is not listed
C14_Witness ==
  /\ cmpWanted = DefaultWanted
  /\ cmpMissing = <<"bpSys", "spo2">>
  /\ vitals.latest.hr = 70 /\ vitals.when.hr = 1
  /\ vitals.when.temp = 3

\* C15: fetchVitals of an empty bundle gives a snapshot without any vital and
\* empty trend series, and computeCompleteness of it returns the wanted list
C15_EmptyBundleAllMissing ==
  (obsBundle = <<>> /\ vitals # NoExtraction) =>
    /\ vitals.latest = NoVitals
    /\ \A k \in DOMAIN vitals.spark : vitals.spark[k] = <<>>
    /\ cmpMissing # NotEvaluated => cmpMissing = cmpWanted

C15_Witness ==
  /\ obsBundle = <<>>
  /\ vitals # NoExtraction
  /\ cmpWanted = DefaultWanted
  /\ cmpMissing = <<"bpSys", "hr", "temp", "spo2">>

\* the quantity value is a text that is no number
FailsParsing(o) ==
  o.value.type = "string" /\ Trim(o.value.text) # <<>> /\ Number(o.value.text) = NaN

Parses(o) == ~FailsParsing(o)

\* what one Observation alone gives for kind k (null when nothing)
Contribution(o, k) == fetchVitalsOf(<<o>>).latest[k]

\* the timestamp of an Observation as a rank: an undated one is older than all
DateRank(o) == IF obsEffectiveDate(o) = null THEN -1 ELSE obsEffectiveDate(o)

\* C16: for every order of the Observations, the latest value of each vital is
\* the value of a contributing Observation with the most recent timestamp
\* (stated for bundles in which every value parses)
C16_LatestIsMostRecent ==
  (vitals # NoExtraction /\ \A i \in 1..Len(obsBundle) : Parses(obsBundle[i])) =>
    \A k \in VitalKinds :
      LET from == {i \in 1..Len(obsBundle) : Contribution(obsBundle[i], k) # null}
      IN  from # {} =>
            \E i \in from :
              /\ \A j \in from : DateRank(obsBundle[j]) <= DateRank(obsBundle[i])
              /\ vitals.latest[k] = Contribution(obsBundle[i], k)

\* the first present of: effective instant, effective period start, issued
FirstPresentDate(o) ==
  IF o.effectiveDateTime # null THEN o.effectiveDateTime
  ELSE IF o.effectiveInstant # null THEN o.effectiveInstant
  ELSE IF o.periodStart # null THEN o.periodStart
  ELSE o.issued

\* C17: an Observation is dated by its effective instant, else by the start
\* of its effective period, else by its issued time, and is undated without
\* them: the date fetchVitals reports for the value of a single Observation
C17_DatePrecedence ==
  (vitals # NoExtraction /\ Len(obsBundle) = 1) =>
    \A k \in VitalKinds :
      vitals.latest[k] # null => vitals.when[k] = FirstPresentDate(obsBundle[1])

KnownCodes == {LOINC[f] : f \in DOMAIN LOINC}

\* the vital a display text names, compared without regard to case
PhraseKind(display) ==
  CASE display \in {"Heart rate", "Pulse rate"} -> "hr"
    [] display = "Blood pressure panel" -> "bp"
    [] OTHER -> "none"

Unrecognised(o) == o.coding \cap KnownCodes = {} /\ PhraseKind(o.display) = "none"

NotUnrecognised(o) == ~Unrecognised(o)

\* C18: an Observation without a code of the table whose display text names
\* a vital gives its value to that vital; an Observation with neither a code
\* of the table nor such a text changes nothing in the snapshot
C18_DisplayTextFallback ==
  vitals # NoExtraction =>
    /\ Len(obsBundle) = 1 =>
         LET o == obsBundle[1]
         IN  (/\ o.coding \cap KnownCodes = {}
              /\ PhraseKind(o.display) = "hr"
              /\ o.value.type = "number")
               => vitals.latest.hr = o.value.num
    /\ LET known == fetchVitalsOf(SelectSeq(obsBundle, NotUnrecognised))
       IN  /\ vitals.latest = known.latest
           /\ vitals.when = known.when
           /\ vitals.spark = known.spark

\* C19: the systolic and the diastolic component of an Observation with
\* components give their numbers to bpSys and bpDia, whatever the code of
\* the Observation itself
C19_ComponentsWhateverParentCode ==
  (vitals # NoExtraction /\ Len(obsBundle) = 1 /\ obsBundle[1].componentIsArray) =>
    \A c \in Range(obsBundle[1].component) :
      c.value.type = "number" =>
        /\ LOINC.BP_SYS \in c.coding => vitals.latest.bpSys = c.value.num
        /\ LOINC.BP_DIA \in c.coding => vitals.latest.bpDia = c.value.num

\* C20: an Observation whose value fails numeric parsing gives nothing to the
\* snapshot: latest values and trend series are those of the other
\* Observations, and no latest value and no point of a series is NaN
C20_UnparsedValueExcluded ==
  vitals # NoExtraction =>
    LET others == fetchVitalsOf(SelectSeq(obsBundle, Parses))
    IN  /\ vitals.latest = others.latest
        /\ vitals.spark = others.spark
        /\ \A k \in VitalKinds : vitals.latest[k] # NaN
        /\ \A k \in DOMAIN vitals.spark : NaN \notin Range(vitals.spark[k])

\* C21: the trend series of a vital holds the values of the min(n, 12) most
\* recent of its n contributing Observations, oldest first; it is never
\* longer than 12 and, when non-empty, ends with the latest value of the vital
\* (stated for the vitals that have a series, and for bundles in which every
\* value parses)
C21_TrendIsMostRecentOldestFirst ==
  (vitals # NoExtraction /\ \A i \in 1..Len(obsBundle) : Parses(obsBundle[i])) =>
    \A k \in DOMAIN vitals.spark :
      LET s == vitals.spark[k]
          from == {i \in 1..Len(obsBundle) : Contribution(obsBundle[i], k) # null}
          n == Cardinality(from)
          m == IF n < 12 THEN n ELSE 12
      IN  /\ Len(s) = m
          /\ Len(s) <= 12
          /\ m > 0 => s[m] = vitals.latest[k]
          /\ \E p \in [1..m -> from] :
               /\ \A i, j \in 1..m : i # j => p[i] # p[j]
               /\ \A i \in 1..m : s[i] = Contribution(obsBundle[p[i]], k)
               /\ \A i, j \in 1..m :
                    i < j => DateRank(obsBundle[p[i]]) <= DateRank(obsBundle[p[j]])
               /\ \A q \in from \ {p[i] : i \in 1..m} :
                    \A i \in 1..m : DateRank(obsBundle[q]) <= DateRank(obsBundle[p[i]])

(* ------------------------------------------------------------------ *)
(* Properties of the worklist view                                      *)
(* ------------------------------------------------------------------ *)
\* the triage level of a row (a row without preview has none: UNKNOWN), and
\* whether its completeness list is non-empty
RowLevel(pid) ==
  IF pid \in DOMAIN snapshotByPatient THEN snapshotByPatient[pid].triage ELSE "UNKNOWN"

RowHasMissing(pid) ==
  pid \in DOMAIN snapshotByPatient /\ snapshotByPatient[pid].missing # <<>>

\* RED > AMBER > GREEN > UNKNOWN
LevelRank(l) ==
  CASE l = "RED" -> 4 [] l = "AMBER" -> 3 [] l = "GREEN" -> 2 [] l = "UNKNOWN" -> 1

\* Scenario E: the rows are GREEN and complete, RED with vitals missing,
\* AMBER and complete, in this order
ScenarioE ==
  /\ patients = RankList
  /\ worklistFilter = "ALL"
  /\ DOMAIN snapshotByPatient = {1, 2, 3}
  /\ RowLevel(1) = "GREEN" /\ ~RowHasMissing(1)
  /\ RowLevel(2) = "RED" /\ RowHasMissing(2)
  /\ RowLevel(3) = "AMBER" /\ ~RowHasMissing(3)

\* C22: sorted by RISK, a row of a lower triage level never precedes one of a
\* higher level (RED > AMBER > GREEN > UNKNOWN) and, within one level, a row
\* without missing vitals never precedes one with missing vitals; Scenario E
\* is shown as RED-missing, AMBER-complete, GREEN-complete
C22_RiskOrder ==
  sortMode = "RISK" =>
    /\ \A i, j \in 1..Len(filteredWorklist) :
         i < j =>
           /\ LevelRank(RowLevel(filteredWorklist[i])) >= LevelRank(RowLevel(filteredWorklist[j]))
           /\ RowLevel(filteredWorklist[i]) = RowLevel(filteredWorklist[j]) =>
                (RowHasMissing(filteredWorklist[j]) => RowHasMissing(filteredWorklist[i]))
    /\ ScenarioE => filteredWorklist = <<2, 3, 1>>

C22_Witness ==
  ScenarioE /\ sortMode = "RISK" /\ filteredWorklist = <<2, 3, 1>>

\* the rows the chosen filter asks for
Wanted(pid) ==
  CASE worklistFilter = "ALL" -> TRUE
    [] worklistFilter = "MISSING" -> RowHasMissing(pid)
    [] OTHER -> pid \in DOMAIN snapshotByPatient
                  /\ snapshotByPatient[pid].triage = worklistFilter

\* C23: the view holds every row for ALL, exactly the rows of the chosen
\* triage level for a level filter, exactly the rows with a non-empty
\* completeness list for MISSING; it never holds a row that is not in the
\* patient list and never holds a row twice
C23_FilterExact ==
  /\ Range(filteredWorklist) = {pid \in Range(patients) : Wanted(pid)}
  /\ \A i, j \in 1..Len(filteredWorklist) :
       i # j => filteredWorklist[i] # filteredWorklist[j]

\* a level filter has dropped a row and kept another
C23_Witness ==
  /\ worklistFilter = "RED"
  /\ filteredWorklist # <<>>
  /\ Len(filteredWorklist) < Len(patients)

\* the last-event timestamp of a row, null when it has none
RowLastEvent(pid) ==
  IF pid \in DOMAIN snapshotByPatient /\ "lastEncounter" \in DOMAIN snapshotByPatient[pid]
  THEN snapshotByPatient[pid].lastEncounter
  ELSE null

\* C24: sorted by RECENT, the rows that have a last-event timestamp are in
\* descending order of it, and every row without a timestamp comes after
\* every row that has one
C24_RecentOrder ==
  sortMode = "RECENT" =>
    \A i, j \in 1..Len(filteredWorklist) :
      i < j =>
        /\ (RowLastEvent(filteredWorklist[i]) # null /\ RowLastEvent(filteredWorklist[j]) # null)
             => RowLastEvent(filteredWorklist[i]) >= RowLastEvent(filteredWorklist[j])
        /\ RowLastEvent(filteredWorklist[j]) # null => RowLastEvent(filteredWorklist[i]) # null

(* ------------------------------------------------------------------ *)
(* Properties of the note                                               *)
(* ------------------------------------------------------------------ *)
\* the subject label, triage result, completeness result and rule the text
\* of a note shows, and the ones a note composed now is given
InputsShown(n) ==
  [label |-> <<n.patientName, n.patientId>>,
   triage |-> [level |-> n.triageLevel, reasons |-> n.triageReasons],
   missing |-> n.missing,
   hours |-> n.completenessHours]

InputsNow ==
  [label |-> <<SelectedName(patients, selectedPatientId), selectedPatientId>>,
   triage |-> selectedTriageOf(storyByPatient, selectedPatientId, rules),
   missing |-> selectedMissingOf(storyByPatient, selectedPatientId),
   hours |-> rules.completenessHours]

\* C25: composing the note is deterministic: composed again from the same
\* subject label, snapshot, triage, completeness and rules, at whatever time,
\* the text is the one composed before
C25_SameInputsSameText ==
  [][(generateAiSummary /\ aiNote # NoNote /\ InputsShown(aiNote) = InputsNow)
       => aiNote' = aiNote]_vars

\* the patient panel is shown with its export button enabled: the button
\* names the file AI_note_<id>.pdf after the selected patient
ExportOffered ==
  FindSelected(patients, selectedPatientId) # null /\ aiNote # NoNote

ExportFileId == FindSelected(patients, selectedPatientId)

\* C29: the note displayed and offered for export was generated for the
\* currently selected patient, or is empty: the patient the text names is the
\* one whose id the export file name carries
C29_NoteIsOfSelectedPatient ==
  ExportOffered => aiNote.patientId = ExportFileId

(* ------------------------------------------------------------------ *)
(* Properties of cancellation and of the cache check                    *)
(* ------------------------------------------------------------------ *)
\* C26: once the cleanup of a pass has set cancelled, the pass starts no
\* fetch for a subject whose mapper had not started; its workers keep taking
\* the remaining indices without fetching, and the pass still terminates:
\* every index has been taken once and every worker has left its loop
C26_CancelledPassDrains ==
  /\ [][\A n \in PassIds :
          passes[n].cancelled => passes'[n].awaiting \subseteq passes[n].awaiting]_vars
  /\ \A n \in 1..MaxFairPasses :
       (Len(passes) >= n /\ passes[n].cancelled)
         ~> (/\ Len(passes) >= n
             /\ PassResolved(passes[n])
             /\ \A k \in 1..Len(passes[n].list) : passes[n].claims[k] = 1)

\* a cancelled pass has terminated and left a subject of its list unfetched
C26_Witness ==
  \E n \in PassIds :
    /\ passes[n].cancelled
    /\ PassResolved(passes[n])
    /\ Len(passes[n].list) > Limit
    /\ passes[n].i = Len(passes[n].list) + Limit
    /\ \E pid \in ListSet(passes[n].list) : pid \notin DOMAIN snapshotByPatient

\* C27: for each vital present in the extraction, when[kind] is the timestamp
\* of the Observation that supplied latest[kind], also when that Observation
\* is undated (stated for bundles in which every value parses)
C27_WhenIsOfLatestRecord ==
  (vitals # NoExtraction /\ \A i \in 1..Len(obsBundle) : Parses(obsBundle[i])) =>
    \A k \in VitalKinds :
      vitals.latest[k] # null =>
        LET from == {i \in 1..Len(obsBundle) : Contribution(obsBundle[i], k) # null}
            first == CHOOSE i \in from : \A j \in from : i <= j
        IN  vitals.when[k] = obsEffectiveDate(obsBundle[first])

\* a fetch of subject pid starts in this step
StartsFetchOf(pid) ==
  \E n \in 1..Len(passes') :
    \E idx \in passes'[n].awaiting :
      passes'[n].list[idx + 1] = pid /\ StartsFetch(n, idx)

\* C28: a degraded entry counts as existing for the cache check: once the
\* degraded UNKNOWN entry of a subject is in the map, no pass starts a fetch
\* of that subject again, so the entry stays UNKNOWN
C28_DegradedNeverRefetched ==
  [][\A pid \in DOMAIN snapshotByPatient :
       IsDegraded(snapshotByPatient[pid]) =>
         /\ ~StartsFetchOf(pid)
         /\ IsDegraded(snapshotByPatient'[pid])]_vars

(* ------------------------------------------------------------------ *)
(* Properties of the single-list variant                                *)
(* ------------------------------------------------------------------ *)
\* no Observation load is pending
NoLoadPending == \A k \in 1..Len(obsRequests) : ~obsRequests[k].pending

\* C30: in the single-list variant, once no Observation load is pending, the
\* Observations in state belong to the selected patient: after selecting A
\* and then B before A's fetch returns, they are B's whatever the order in
\* which the two responses arrive
C30_ObservationsOfSelected ==
  (NoLoadPending /\ selectedPatient # null) =>
    \A i \in 1..Len(observations) : observations[i].subject = selectedPatient

====
